---- MODULE Spec2Model ----
(***************************************************************************)
(* State-machine model of src/app.py: a Flask application that maps five   *)
(* HTTP operations onto an SQLite file with the tables movies, actors,     *)
(* technicians, movie_actor and movie_technician.                          *)
(*                                                                         *)
(* One request is handled at a time.  `store` is the committed content of  *)
(* the database file, `view` is what the request's connection sees (the    *)
(* committed content plus its own uncommitted writes).  The handlers       *)
(* GET /movies, GET/PUT /movies/<id> and DELETE /actors/<id> are one       *)
(* action each; POST /movies is modelled statement by statement because    *)
(* it commits in the middle and can fail between statements.  Every        *)
(* request ends with the teardown_appcontext callback close_db.            *)
(***************************************************************************)
EXTENDS Integers, Sequences, FiniteSets, TLC

VARIABLES
    store,      \* committed content of movie_database.db (five tables)
    view,       \* content as seen through g.db, uncommitted writes included
    g_db,       \* "absent": g has no db; "open"/"closed": state of g.db
    req,        \* the request being (or last) handled
    pc,         \* position in the handler
    lastrowid,  \* cursor.lastrowid
    movie_id,   \* local variable movie_id of movies()
    idx,        \* 1-based position of the for loops of movies()
    resp,       \* the response: [status, json]
    \* history variables (observers, never read by the handlers)
    pre,        \* store when the request was received
    closeCalls, \* number of close() calls on g.db during this request
    released,   \* number of open -> closed transitions during this request
    commitLog,  \* for each commit() of this request, the number of INSERTs issued before it
    inserts,    \* number of INSERT statements issued by this request
    written,    \* movie id -> name/year of the latest committed POST or PUT
    created,    \* movie ids in order of creation
    prevDel     \* actor id whose row the immediately preceding request deleted, else 0

vars == <<store, view, g_db, req, pc, lastrowid, movie_id, idx, resp, pre,
          closeCalls, released, commitLog, inserts, written, created, prevDel>>

----------------------------------------------------------------------------
(* Bounds of the model *)

\* largest number of rows of movies for which POST /movies is still explored
MaxMovies == 2
\* largest number of movies a pre-populated database starts with (SpecList)
MaxSeed == 11

(* Program constants *)

\* request.args.get("page", 1)
DefaultPage == 1
\* request.args.get("per_page", 10)
DefaultPerPage == 10

----------------------------------------------------------------------------
(* Input values *)

\* JSON null / Python None / SQL NULL
NULL == "<null>"

\* valid (name, year_of_release) pairs of a request body
Titles == {<<"Inception", 2010>>, <<"Heat", 1995>>}

\* lists of actor names of a request body: empty, repeated names, a null name
ActorLists == {<<>>, <<"Al">>, <<"Al", "Al">>, <<"Al", NULL>>}

\* lists of technician names of a request body
TechnicianLists == {<<"Cy", "Cy">>, <<"Cy", NULL>>}

\* query-string values of page
PageValues == {"2", "x"}

\* query-string values of per_page
PerPageValues == {"1", "5", "x"}

Keys == {"name", "year_of_release", "actors", "technicians"}

\* the JSON object with the keys K
Body(K, nm, yr, ac, te) ==
    [k \in K |-> CASE k = "name" -> nm
                   [] k = "year_of_release" -> yr
                   [] k = "actors" -> ac
                   [] OTHER -> te]

\* bodies with both required keys and a non-null name
ValidBodies ==
    {Body(K, t[1], t[2], ac, te) :
        K \in {S \in SUBSET Keys : {"name", "year_of_release"} \subseteq S},
        t \in Titles, ac \in ActorLists, te \in TechnicianLists}

\* bodies lacking a required key, or naming the movie null
InvalidBodies ==
    {Body(K, "Inception", 2010, <<"Al">>, <<"Cy">>) :
        K \in {S \in SUBSET Keys : ~({"name", "year_of_release"} \subseteq S)}}
    \cup
    {Body(K, NULL, 2010, <<"Al">>, <<"Cy">>) :
        K \in {S \in SUBSET Keys : {"name", "year_of_release"} \subseteq S}}

PostBodies == ValidBodies \cup InvalidBodies

PutBodies ==
    {Body({"name", "year_of_release"}, t[1], t[2], <<>>, <<>>) : t \in Titles}
    \cup {Body(K, nm, 2010, <<>>, <<>>) :
            K \in SUBSET {"name", "year_of_release"}, nm \in {NULL}}

QueryArgs ==
    {[k \in K |-> IF k = "page" THEN p ELSE pp] :
        K \in SUBSET {"page", "per_page"}, p \in PageValues, pp \in PerPageValues}

\* <int:movie_id> values tried: every id POST can assign here, and one beyond
MovieIds == 1..(MaxMovies + 1)

----------------------------------------------------------------------------
(* Storage *)

Max(S) == CHOOSE x \in S : \A y \in S : y <= x

Min2(a, b) == IF a <= b THEN a ELSE b

\* the five tables right after create_tables()
EmptyTables ==
    [movies |-> {}, actors |-> {}, technicians |-> {},
     movie_actor |-> <<>>, movie_technician |-> <<>>]

\* id INTEGER PRIMARY KEY: the rowid given to a new row
NextRowid(rows) == IF rows = {} THEN 1 ELSE Max({r.id : r \in rows}) + 1

\* name TEXT NOT NULL
NotNullOk(v) == v # NULL

\* rows of a rowid table in the order a SELECT without ORDER BY scans them
RECURSIVE ByRowid(_)
ByRowid(rows) ==
    IF rows = {} THEN <<>>
    ELSE LET m == CHOOSE r \in rows : \A q \in rows : q.id <= r.id
         IN Append(ByRowid(rows \ {m}), m)

\* INSERT INTO movies (name, year_of_release) VALUES (?, ?)
InsertMovie(t, name, year) ==
    [t EXCEPT !.movies = @ \cup
        {[id |-> NextRowid(t.movies), name |-> name, year_of_release |-> year]}]

\* variant: an actors row of the same name is reused instead of a new one added
InsertActorDedup(t, mid, name) ==
    LET same == {r \in t.actors : r.name = name}
        aid == IF same = {} THEN NextRowid(t.actors) ELSE (CHOOSE r \in same : TRUE).id
    IN [t EXCEPT !.actors = @ \cup {[id |-> aid, name |-> name]},
                 !.movie_actor = Append(@, [movie_id |-> mid, actor_id |-> aid])]

\* INSERT INTO actors (name) VALUES (?), then INSERT INTO movie_actor
InsertActor(t, mid, name) ==
    LET aid == NextRowid(t.actors)
    IN [t EXCEPT !.actors = @ \cup {[id |-> aid, name |-> name]},
                 !.movie_actor = Append(@, [movie_id |-> mid, actor_id |-> aid])]

\* INSERT INTO technicians (name) VALUES (?), then INSERT INTO movie_technician
InsertTechnician(t, mid, name) ==
    LET tid == NextRowid(t.technicians)
    IN [t EXCEPT !.technicians = @ \cup {[id |-> tid, name |-> name]},
                 !.movie_technician =
                     Append(@, [movie_id |-> mid, technician_id |-> tid])]

\* variant: pages counted from 0
OffsetFromZero(page, per_page) == page * per_page

\* offset = (page - 1) * per_page
Offset(page, per_page) == (page - 1) * per_page

\* SELECT id, name, year_of_release FROM movies LIMIT ? OFFSET ?
\* (SQLite: a negative LIMIT is no limit, a negative OFFSET is 0)
SelectPage(t, limit, offset) ==
    LET all == ByRowid(t.movies)
        off == IF offset < 0 THEN 0 ELSE offset
        last == IF limit < 0 THEN Len(all) ELSE Min2(Len(all), off + limit)
    IN SubSeq(all, off + 1, last)

\* SELECT id, name, year_of_release FROM movies WHERE id = ?  (fetchone)
SelectMovie(t, id) == {r \in t.movies : r.id = id}

\* variant: the UPDATE sets the name and leaves year_of_release
UpdateMovieNameOnly(t, id, name, year) ==
    [t EXCEPT !.movies = {IF r.id = id THEN [r EXCEPT !.name = name] ELSE r : r \in @}]

\* variant: the row is inserted when no row has the id
UpdateMovieUpsert(t, id, name, year) ==
    [t EXCEPT !.movies =
        {r \in @ : r.id # id} \cup {[id |-> id, name |-> name, year_of_release |-> year]}]

\* UPDATE movies SET name = ?, year_of_release = ? WHERE id = ?
UpdateMovie(t, id, name, year) ==
    [t EXCEPT !.movies =
        {IF r.id = id THEN [r EXCEPT !.name = name, !.year_of_release = year] ELSE r :
            r \in @}]

\* SELECT 1 FROM movie_actor WHERE actor_id = ? LIMIT 1
IsAssociated(t, id) ==
    \E i \in 1..Len(t.movie_actor) : t.movie_actor[i].actor_id = id

KeepOthers(row, id) == row.actor_id # id

\* variant: the association rows are left in place
KeepAssociations(t, id) == t

\* DELETE FROM movie_actor WHERE actor_id = ?
DeleteAssociations(t, id) ==
    [t EXCEPT !.movie_actor = SelectSeq(@, LAMBDA row : KeepOthers(row, id))]

\* DELETE FROM actors WHERE id = ?
DeleteActorRow(t, id) ==
    [t EXCEPT !.actors = {r \in @ : r.id # id}]

\* variant: an actor that is associated with movies is not deleted
DeleteOnlyIfFree(t, id) ==
    IF IsAssociated(t, id) THEN t ELSE DeleteActorRow(t, id)

\* the statements of delete_actor: disassociate if associated, then delete
DeleteActorTables(t, id) ==
    DeleteActorRow(IF IsAssociated(t, id) THEN DeleteAssociations(t, id) ELSE t, id)

----------------------------------------------------------------------------
(* Request context and responses *)

\* hasattr(g, "db")
HasDb(g) == g # "absent"

\* number of close() calls the teardown callback close_db makes
TeardownCloses(g) == IF HasDb(g) THEN 1 ELSE 0

\* number of close() calls a handler makes on the path that returns normally
HandlerCloses == 1

\* "name" not in data or "year_of_release" not in data
MissingFields(data) ==
    "name" \notin DOMAIN data \/ "year_of_release" \notin DOMAIN data

\* data.get(key, [])
GetList(data, key) == IF key \in DOMAIN data THEN data[key] ELSE <<>>

\* int(): the decimal literals among the query values
IsIntLiteral(s) == s \in {"1", "2", "5"}

int(s) == CASE s = "1" -> 1 [] s = "2" -> 2 [] s = "5" -> 5

\* jsonify(payload): status 200
jsonify(payload) == [status |-> 200, json |-> payload]

\* variant: the status code goes into the payload, as in jsonify(payload, code)
handle_error_in_body(message, status_code) ==
    [status |-> 200, json |-> <<[message |-> message], status_code>>]

\* handle_error(message, status_code)
handle_error(message, status_code) ==
    [status |-> status_code, json |-> [message |-> message]]

\* the response to an exception no handler catches
ServerError == [status |-> 500, json |-> [message |-> "Internal Server Error"]]

MissingMessage == "Missing required fields (name and year_of_release)"

NotFoundMessage == "Movie not found"

CreatedMessage == "Movie and associated actors/technicians added successfully"

UpdatedMessage == "Movie updated successfully"

DeletedMessage == "Actor deleted successfully"

\* the JSON form of a movies row
MovieJson(row) ==
    [id |-> row.id, name |-> row.name, year_of_release |-> row.year_of_release]

NoRequest == [method |-> "NONE", route |-> "none"]

----------------------------------------------------------------------------
(* Initial states *)

\* the database holding k movies and nothing else, as k POSTs without cast leave it
SeedTables(k) ==
    [EmptyTables EXCEPT !.movies =
        {[id |-> i,
          name |-> IF i % 2 = 1 THEN "Inception" ELSE "Heat",
          year_of_release |-> IF i % 2 = 1 THEN 2010 ELSE 1995] : i \in 1..k}]

InitWith(t) ==
    /\ store = t
    /\ view = t
    /\ g_db = "closed"
    /\ req = NoRequest
    /\ pc = "idle"
    /\ lastrowid = 0
    /\ movie_id = 0
    /\ idx = 0
    /\ resp = jsonify(<<>>)
    /\ pre = t
    /\ closeCalls = 0
    /\ released = 0
    /\ commitLog = <<>>
    /\ inserts = 0
    /\ written = [i \in {r.id : r \in t.movies} |->
                    LET r == CHOOSE q \in t.movies : q.id = i
                    IN [name |-> r.name, year_of_release |-> r.year_of_release]]
    /\ created = [i \in 1..Cardinality(t.movies) |-> i]
    /\ prevDel = 0

\* after "with app.app_context(): create_tables()"
Init == InitWith(EmptyTables)

\* a database file left by earlier runs with up to MaxSeed movies
InitList == \E k \in 0..MaxSeed : InitWith(SeedTables(k))

----------------------------------------------------------------------------
(* Actions *)

\* a request arrives in a fresh application context
Begin(r) ==
    /\ pc \in {"idle", "done"}
    /\ req' = r
    /\ pre' = store
    /\ prevDel' = IF /\ pc = "done"
                      /\ req.route = "delete_actor"
                      /\ \E a \in pre.actors : a.id = req.id
                   THEN req.id ELSE 0

\* GET /movies
MoviesGet(args) ==
    /\ Begin([method |-> "GET", route |-> "movies", args |-> args])
    /\ LET bad == \E k \in DOMAIN args : ~IsIntLiteral(args[k])
           page == IF "page" \in DOMAIN args THEN int(args["page"]) ELSE DefaultPage
           per_page == IF "per_page" \in DOMAIN args THEN int(args["per_page"])
                       ELSE DefaultPerPage
           rows == SelectPage(store, per_page, Offset(page, per_page))
       IN IF bad
          THEN /\ resp' = ServerError
               /\ g_db' = "absent"
               /\ closeCalls' = 0
               /\ released' = 0
          ELSE /\ resp' = jsonify([i \in 1..Len(rows) |-> MovieJson(rows[i])])
               /\ g_db' = "closed"
               /\ closeCalls' = HandlerCloses
               /\ released' = 1
    /\ pc' = "teardown"
    /\ commitLog' = <<>>
    /\ inserts' = 0
    /\ lastrowid' = 0
    /\ movie_id' = 0
    /\ idx' = 0
    /\ UNCHANGED <<store, view, written, created>>

\* GET /movies/<int:movie_id>
MovieGet(id) ==
    /\ Begin([method |-> "GET", route |-> "movie", id |-> id])
    /\ LET movie_data == SelectMovie(store, id)
       IN resp' = IF movie_data = {}
                  THEN handle_error(NotFoundMessage, 404)
                  ELSE jsonify(MovieJson(CHOOSE r \in movie_data : TRUE))
    /\ g_db' = "closed"
    /\ closeCalls' = HandlerCloses
    /\ released' = 1
    /\ pc' = "teardown"
    /\ commitLog' = <<>>
    /\ inserts' = 0
    /\ lastrowid' = 0
    /\ movie_id' = 0
    /\ idx' = 0
    /\ UNCHANGED <<store, view, written, created>>

\* PUT /movies/<int:movie_id>
MoviePut(id, data) ==
    /\ Begin([method |-> "PUT", route |-> "movie", id |-> id, data |-> data])
    /\ inserts' = 0
    /\ pc' = "teardown"
    /\ IF MissingFields(data)
       THEN /\ resp' = handle_error(MissingMessage, 400)
            /\ g_db' = "absent"
            /\ closeCalls' = 0
            /\ released' = 0
            /\ commitLog' = <<>>
            /\ UNCHANGED <<store, view, written>>
       ELSE IF SelectMovie(store, id) # {} /\ ~NotNullOk(data["name"])
       THEN \* IntegrityError: the exception leaves the handler, g.db stays open
            /\ resp' = ServerError
            /\ g_db' = "open"
            /\ closeCalls' = 0
            /\ released' = 0
            /\ commitLog' = <<>>
            /\ UNCHANGED <<store, view, written>>
       ELSE /\ store' = UpdateMovie(store, id, data["name"], data["year_of_release"])
            /\ view' = store'
            /\ commitLog' = <<0>>
            /\ g_db' = "closed"
            /\ closeCalls' = HandlerCloses
            /\ released' = 1
            /\ resp' = jsonify([message |-> UpdatedMessage])
            /\ written' = IF id \in DOMAIN written
                          THEN [written EXCEPT ![id] =
                                  [name |-> data["name"],
                                   year_of_release |-> data["year_of_release"]]]
                          ELSE written
    /\ lastrowid' = 0
    /\ movie_id' = 0
    /\ idx' = 0
    /\ UNCHANGED created

\* DELETE /actors/<int:actor_id>
DeleteActor(id) ==
    /\ Begin([method |-> "DELETE", route |-> "delete_actor", id |-> id])
    /\ store' = DeleteActorTables(store, id)
    /\ view' = store'
    /\ commitLog' = <<0>>
    /\ inserts' = 0
    /\ g_db' = "closed"
    /\ closeCalls' = HandlerCloses
    /\ released' = 1
    /\ resp' = jsonify([message |-> DeletedMessage])
    /\ pc' = "teardown"
    /\ lastrowid' = 0
    /\ movie_id' = 0
    /\ idx' = 0
    /\ UNCHANGED <<written, created>>

\* POST /movies: data = request.json, the presence check, get_db()
PostBegin(data) ==
    /\ Cardinality(store.movies) < MaxMovies
    /\ Begin([method |-> "POST", route |-> "movies", data |-> data])
    /\ IF MissingFields(data)
       THEN /\ resp' = handle_error(MissingMessage, 400)
            /\ g_db' = "absent"
            /\ pc' = "teardown"
       ELSE /\ resp' = jsonify(<<>>)
            /\ g_db' = "open"
            /\ pc' = "insert_movie"
    /\ view' = store
    /\ closeCalls' = 0
    /\ released' = 0
    /\ commitLog' = <<>>
    /\ inserts' = 0
    /\ lastrowid' = 0
    /\ movie_id' = 0
    /\ idx' = 0
    /\ UNCHANGED <<store, written, created>>

\* POST /movies: INSERT INTO movies
PostInsertMovie ==
    /\ pc = "insert_movie"
    /\ IF NotNullOk(req.data["name"])
       THEN /\ view' = InsertMovie(view, req.data["name"], req.data["year_of_release"])
            /\ lastrowid' = NextRowid(view.movies)
            /\ inserts' = inserts + 1
            /\ pc' = "commit_movie"
            /\ resp' = resp
       ELSE /\ resp' = ServerError
            /\ pc' = "teardown"
            /\ UNCHANGED <<view, lastrowid, inserts>>
    /\ UNCHANGED <<store, g_db, req, movie_id, idx, pre, closeCalls, released,
                   commitLog, written, created, prevDel>>

\* where the for loops of movies() stand with position i of the given stage
LoopPc(data, stage, i) ==
    IF stage = "actors" /\ i <= Len(GetList(data, "actors"))
    THEN <<"actors", i>>
    ELSE IF stage = "actors"
    THEN IF 1 <= Len(GetList(data, "technicians"))
         THEN <<"technicians", 1>> ELSE <<"finish", 0>>
    ELSE IF i <= Len(GetList(data, "technicians"))
    THEN <<"technicians", i>>
    ELSE <<"finish", 0>>

\* variant: no commit between the movie insert and the cast inserts
NoCommitAfterMovie(t, v) == t

\* what the database file holds after the conn.commit() that follows the
\* movie insert, from its content t and the connection's view v
CommitAfterMovie(t, v) == v

\* POST /movies: conn.commit(); movie_id = cursor.lastrowid
PostCommitMovie ==
    /\ pc = "commit_movie"
    /\ store' = CommitAfterMovie(store, view)
    /\ commitLog' = Append(commitLog, inserts)
    /\ movie_id' = lastrowid
    /\ written' = [i \in DOMAIN written \cup {lastrowid} |->
                     IF i = lastrowid
                     THEN [name |-> req.data["name"],
                           year_of_release |-> req.data["year_of_release"]]
                     ELSE written[i]]
    /\ created' = Append(created, lastrowid)
    /\ pc' = LoopPc(req.data, "actors", 1)[1]
    /\ idx' = LoopPc(req.data, "actors", 1)[2]
    /\ UNCHANGED <<view, g_db, req, lastrowid, resp, pre, closeCalls, released,
                   inserts, prevDel>>

\* POST /movies: one round of "for actor_name in actors"
PostActor ==
    /\ pc = "actors"
    /\ LET actor_name == GetList(req.data, "actors")[idx]
       IN IF NotNullOk(actor_name)
          THEN /\ view' = InsertActor(view, movie_id, actor_name)
               /\ lastrowid' = NextRowid(view.actors)
               /\ inserts' = inserts + 2
               /\ pc' = LoopPc(req.data, "actors", idx + 1)[1]
               /\ idx' = LoopPc(req.data, "actors", idx + 1)[2]
               /\ resp' = resp
          ELSE /\ resp' = ServerError
               /\ pc' = "teardown"
               /\ UNCHANGED <<view, lastrowid, inserts, idx>>
    /\ UNCHANGED <<store, g_db, req, movie_id, pre, closeCalls, released,
                   commitLog, written, created, prevDel>>

\* POST /movies: one round of "for technician_name in technicians"
PostTechnician ==
    /\ pc = "technicians"
    /\ LET technician_name == GetList(req.data, "technicians")[idx]
       IN IF NotNullOk(technician_name)
          THEN /\ view' = InsertTechnician(view, movie_id, technician_name)
               /\ lastrowid' = NextRowid(view.technicians)
               /\ inserts' = inserts + 2
               /\ pc' = LoopPc(req.data, "technicians", idx + 1)[1]
               /\ idx' = LoopPc(req.data, "technicians", idx + 1)[2]
               /\ resp' = resp
          ELSE /\ resp' = ServerError
               /\ pc' = "teardown"
               /\ UNCHANGED <<view, lastrowid, inserts, idx>>
    /\ UNCHANGED <<store, g_db, req, movie_id, pre, closeCalls, released,
                   commitLog, written, created, prevDel>>

\* POST /movies: conn.commit(); conn.close(); return jsonify({...}, 201)
PostFinish ==
    /\ pc = "finish"
    /\ store' = view
    /\ commitLog' = Append(commitLog, inserts)
    /\ g_db' = "closed"
    /\ closeCalls' = closeCalls + HandlerCloses
    /\ released' = released + 1
    /\ resp' = jsonify(<<[message |-> CreatedMessage], 201>>)
    /\ pc' = "teardown"
    /\ UNCHANGED <<view, req, lastrowid, movie_id, idx, pre, inserts, written,
                   created, prevDel>>

\* variant: closing the connection commits its pending writes
CloseCommits(t, v) == v

\* what the database file holds once a connection with view v is closed:
\* uncommitted writes are lost
AfterClose(t, v) == t

\* @app.teardown_appcontext close_db
Teardown ==
    /\ pc = "teardown"
    /\ closeCalls' = closeCalls + TeardownCloses(g_db)
    /\ released' = IF g_db = "open" THEN released + 1 ELSE released
    /\ g_db' = IF HasDb(g_db) THEN "closed" ELSE g_db
    /\ store' = IF g_db = "open" THEN AfterClose(store, view) ELSE store
    /\ view' = store'
    /\ pc' = "done"
    /\ UNCHANGED <<req, lastrowid, movie_id, idx, resp, pre, commitLog, inserts,
                   written, created, prevDel>>

Next ==
    \/ \E args \in QueryArgs : MoviesGet(args)
    \/ \E id \in MovieIds : MovieGet(id)
    \/ \E id \in MovieIds, data \in PutBodies : MoviePut(id, data)
    \/ \E id \in 1..NextRowid(store.actors) : DeleteActor(id)
    \/ \E data \in PostBodies : PostBegin(data)
    \/ PostInsertMovie
    \/ PostCommitMovie
    \/ PostActor
    \/ PostTechnician
    \/ PostFinish
    \/ Teardown

Spec == Init /\ [][Next]_vars

\* the same program started on a database file that already holds movies
SpecList == InitList /\ [][Next]_vars

----------------------------------------------------------------------------
(* Vocabulary of the properties *)

Done == pc = "done"

Ids(rows) == {r.id : r \in rows}

\* the rows of sequence s after its first n
Added(s, n) == SubSeq(s, n + 1, Len(s))

\* sequence p is an initial part of sequence s
IsPrefix(p, s) == Len(p) <= Len(s) /\ SubSeq(s, 1, Len(p)) = p

\* the body has both required keys
HasBoth(data) == {"name", "year_of_release"} \subseteq DOMAIN data

\* N and M of a POST body
NActors(data) == IF "actors" \in DOMAIN data THEN Len(data["actors"]) ELSE 0

MTechnicians(data) ==
    IF "technicians" \in DOMAIN data THEN Len(data["technicians"]) ELSE 0

PostSucceeded ==
    /\ Done
    /\ req.method = "POST"
    /\ resp.status = 200

\* a POST that raised after its movie insert had been issued
PostFailedAfterInsert ==
    /\ Done
    /\ req.method = "POST"
    /\ resp.status = 500
    /\ inserts >= 1

\* the movies row a POST added
NewMovie == CHOOSE r \in store.movies : r.id \notin Ids(pre.movies)

----------------------------------------------------------------------------
(* C1 *)

\* C1: a successful POST /movies with N actor names and M technician names adds
\* exactly one movies row, N actors rows, M technicians rows, N movie_actor rows
\* and M movie_technician rows; every added association row carries the id of
\* the new movie and the id of a new actor (technician) row; no row that existed
\* before is changed or removed.
C1_PostAddsRows ==
    PostSucceeded =>
        LET N == NActors(req.data)
            M == MTechnicians(req.data)
            newMovies == store.movies \ pre.movies
            newActors == store.actors \ pre.actors
            newTechs == store.technicians \ pre.technicians
            newMA == Added(store.movie_actor, Len(pre.movie_actor))
            newMT == Added(store.movie_technician, Len(pre.movie_technician))
        IN /\ pre.movies \subseteq store.movies
           /\ pre.actors \subseteq store.actors
           /\ pre.technicians \subseteq store.technicians
           /\ IsPrefix(pre.movie_actor, store.movie_actor)
           /\ IsPrefix(pre.movie_technician, store.movie_technician)
           /\ Cardinality(newMovies) = 1
           /\ Cardinality(Ids(store.movies)) = Cardinality(Ids(pre.movies)) + 1
           /\ Cardinality(newActors) = N
           /\ Cardinality(Ids(store.actors)) = Cardinality(Ids(pre.actors)) + N
           /\ Cardinality(newTechs) = M
           /\ Cardinality(Ids(store.technicians)) = Cardinality(Ids(pre.technicians)) + M
           /\ Len(newMA) = N
           /\ Len(newMT) = M
           /\ \A i \in 1..Len(newMA) :
                /\ newMA[i].movie_id \in Ids(newMovies)
                /\ newMA[i].actor_id \in Ids(newActors)
           /\ \A i \in 1..Len(newMT) :
                /\ newMT[i].movie_id \in Ids(newMovies)
                /\ newMT[i].technician_id \in Ids(newTechs)

\* a POST with a repeated actor name and two technicians succeeded on a database
\* that already held a movie, actors and technicians
C1_Witness ==
    /\ PostSucceeded
    /\ NActors(req.data) = 2
    /\ req.data["actors"][1] = req.data["actors"][2]
    /\ MTechnicians(req.data) = 2
    /\ pre.movies # {}
    /\ pre.actors # {}
    /\ pre.technicians # {}

----------------------------------------------------------------------------
(* C2 *)

\* the request obtained a storage connection
ObtainedConnection == g_db # "absent"

\* C2: every request that obtains a connection has it closed exactly once between
\* the start of the request and the end of its context, whether the handler
\* returned or raised: close() is called neither zero times nor more than once.
C2_ClosedExactlyOnce ==
    (Done /\ ObtainedConnection) => closeCalls = 1

\* What the handlers and close_db do together: a request that obtains a connection
\* leaves it closed at the end of its context; close() is called once when the
\* handler raised (by close_db alone) and twice when the handler returned (by the
\* handler, then by close_db on the connection already closed).  A request that
\* obtains no connection has no close() call.
CloseCallsOfTheCode ==
    /\ released <= 1
    /\ Done =>
        IF ObtainedConnection
        THEN /\ g_db = "closed"
             /\ released = 1
             /\ closeCalls = IF resp.status = 500 THEN 1 ELSE 2
        ELSE /\ closeCalls = 0
             /\ released = 0

----------------------------------------------------------------------------
(* C3 *)

----------------------------------------------------------------------------
(* C4 *)

\* C4: GET /movies/<id> answers 404 "Movie not found" exactly when no movies row
\* has that id, and otherwise answers the id with the name and year_of_release of
\* the latest POST that created the row or PUT that updated it.
C4_GetMovie ==
    (Done /\ req.method = "GET" /\ req.route = "movie") =>
        /\ (resp.status = 404) <=> (req.id \notin Ids(store.movies))
        /\ (resp.status = 404) <=> (req.id \notin DOMAIN written)
        /\ resp.status \in {200, 404}
        /\ resp.status = 404 => resp.json = [message |-> "Movie not found"]
        /\ resp.status = 200 =>
              resp.json = [id |-> req.id,
                           name |-> written[req.id].name,
                           year_of_release |-> written[req.id].year_of_release]

\* a GET of a movie that a PUT has renamed: the database started with more
\* movies than POST is explored for, so the name "Heat" of movie 1 is a PUT's
C4_Witness ==
    /\ Done
    /\ req.method = "GET"
    /\ req.route = "movie"
    /\ req.id = 1
    /\ resp.status = 200
    /\ Cardinality(store.movies) > MaxMovies
    /\ resp.json.name = "Heat"
    /\ resp.json.year_of_release = 1995

----------------------------------------------------------------------------
(* C5 *)

\* page and per_page of a GET /movies whose parameters are decimal literals
PageOf(args) == IF "page" \in DOMAIN args THEN int(args["page"]) ELSE 1

PerPageOf(args) == IF "per_page" \in DOMAIN args THEN int(args["per_page"]) ELSE 10

\* the movies at 1-based positions first..last of the creation sequence
CreatedSlice(first, last) ==
    LET n == IF last >= first THEN last - first + 1 ELSE 0
    IN [i \in 1..n |->
          [id |-> created[first + i - 1],
           name |-> written[created[first + i - 1]].name,
           year_of_release |-> written[created[first + i - 1]].year_of_release]]

\* C5: for positive page and per_page, GET /movies returns, in creation order,
\* the movies at positions (page-1)*per_page+1 .. page*per_page of all movies
\* created, cut at the movies that exist; without parameters, the first 10.
C5_Pagination ==
    (/\ Done
     /\ req.method = "GET"
     /\ req.route = "movies"
     /\ \A k \in DOMAIN req.args : IsIntLiteral(req.args[k])) =>
        LET page == PageOf(req.args)
            per_page == PerPageOf(req.args)
            first == (page - 1) * per_page + 1
            last == Min2(page * per_page, Len(created))
        IN /\ resp.status = 200
           /\ resp.json = CreatedSlice(first, last)
           /\ (DOMAIN req.args = {} => resp.json = CreatedSlice(1, Min2(10, Len(created))))

\* page=2&per_page=5 on a database of at least 10 movies returned movies 6 to 10
C5_Witness ==
    /\ Done
    /\ req.method = "GET"
    /\ req.route = "movies"
    /\ DOMAIN req.args = {"page", "per_page"}
    /\ req.args["page"] = "2"
    /\ req.args["per_page"] = "5"
    /\ Cardinality(store.movies) >= 10
    /\ Len(resp.json) = 5
    /\ resp.json[1].id = 6
    /\ resp.json[5].id = 10

----------------------------------------------------------------------------
(* C6 *)

\* C6: a POST /movies or PUT /movies/<id> whose body lacks name or lacks
\* year_of_release is answered 400 with the message naming the required fields,
\* and no row of any table changes.
C6_MissingFields ==
    (Done /\ req.method \in {"POST", "PUT"} /\ ~HasBoth(req.data)) =>
        /\ resp.status = 400
        /\ resp.json = [message |-> "Missing required fields (name and year_of_release)"]
        /\ store = pre

\* a POST without name was refused on a database that holds rows
C6_Witness ==
    /\ Done
    /\ req.method = "POST"
    /\ DOMAIN req.data = {"year_of_release"}
    /\ resp.status = 400
    /\ pre.movies # {}
    /\ pre.actors # {}

----------------------------------------------------------------------------
(* C7 *)

----------------------------------------------------------------------------
(* C8 *)

\* number of INSERT statements of a POST that runs to its end
TotalInserts(data) == 1 + 2 * NActors(data) + 2 * MTechnicians(data)

\* C8 as stated: in a successful POST /movies every insert is issued before the
\* first commit and commit happens exactly once, after the last insert.
C8_CommitOnceAfterAllInserts ==
    PostSucceeded => commitLog = <<TotalInserts(req.data)>>

\* C8 as amended: a successful POST /movies commits exactly twice, first right
\* after the movie insert and before any actor or technician insert, then after
\* the last insert; between the two commits the database file holds the new
\* movie row and none of the actor, technician or association rows.
C8_CommitTwice ==
    /\ PostSucceeded => commitLog = <<1, TotalInserts(req.data)>>
    /\ (req.method = "POST" /\ pc \in {"actors", "technicians", "finish"}) =>
          /\ commitLog = <<1>>
          /\ Cardinality(store.movies \ pre.movies) = 1
          /\ NewMovie.id = movie_id
          /\ store = [pre EXCEPT !.movies = @ \cup {NewMovie}]

\* a POST with actors and technicians ran to its end
C8_Witness ==
    /\ PostSucceeded
    /\ NActors(req.data) = 2
    /\ MTechnicians(req.data) = 2
    /\ Len(commitLog) = 2

----------------------------------------------------------------------------
(* C9 *)

\* C9 as stated: when POST /movies fails after the movie insert, the database
\* holds, once the request has ended, the new movie row and the association rows
\* inserted before the failure.
C9_PartialAssociationsPersist ==
    PostFailedAfterInsert =>
        /\ Cardinality(store.movies \ pre.movies) = 1
        /\ Len(store.movie_actor) + Len(store.movie_technician) =
              Len(pre.movie_actor) + Len(pre.movie_technician) + (inserts - 1) \div 2

\* C9 as amended: when POST /movies fails after the movie insert, the database
\* holds, once the request has ended, the new movie row with the posted name and
\* year and nothing else of the request: the actor, technician and association
\* rows inserted before the failure are discarded.
C9_OnlyMoviePersists ==
    PostFailedAfterInsert =>
        /\ Cardinality(store.movies \ pre.movies) = 1
        /\ NewMovie = [id |-> movie_id,
                       name |-> req.data["name"],
                       year_of_release |-> req.data["year_of_release"]]
        /\ store = [pre EXCEPT !.movies = @ \cup {NewMovie}]

\* a POST failed on a technician after two actors and a technician were inserted
C9_Witness ==
    /\ PostFailedAfterInsert
    /\ inserts = 7

----------------------------------------------------------------------------
(* C10 *)

\* C10: every movie_actor row references a movies row and an actors row that
\* exist, and every movie_technician row references a movies row and a
\* technicians row that exist.
C10_References ==
    /\ \A i \in 1..Len(store.movie_actor) :
          /\ store.movie_actor[i].movie_id \in Ids(store.movies)
          /\ store.movie_actor[i].actor_id \in Ids(store.actors)
    /\ \A i \in 1..Len(store.movie_technician) :
          /\ store.movie_technician[i].movie_id \in Ids(store.movies)
          /\ store.movie_technician[i].technician_id \in Ids(store.technicians)

\* a POST was given the actor id that the DELETE right before it had removed
C10_Witness ==
    /\ PostSucceeded
    /\ prevDel > 0
    /\ prevDel \notin Ids(pre.actors)
    /\ \E i \in 1..Len(store.movie_actor) :
          /\ store.movie_actor[i].actor_id = prevDel
          /\ store.movie_actor[i].movie_id = movie_id
    /\ Len(store.movie_actor) > 1

====
